---------------------------- MODULE Spec2Model ----------------------------
(***************************************************************************)
(* A model of textacy/datasets/reddit_comments.py: the monthly filename    *)
(* generator (_generate_filenames), the range parsers and the filtered     *)
(* streaming iterator (_iterate, behind texts() and records()).            *)
(*                                                                         *)
(* Python str values are sequences of character codes (ASCII), so that the *)
(* string comparisons of the source ("yrmo < end", "start <= created_utc") *)
(* are the lexicographic comparisons Python performs, and strptime and     *)
(* strftime are conversions between such sequences and (year, month, day). *)
(***************************************************************************)
EXTENDS Integers, Sequences, FiniteSets, TLC

VARIABLES
    disk,   \* the set of file paths present under data_dir
    its,    \* its[i]: the state of the i-th iteration (a generator object)
    gen     \* one call of _generate_filenames: its arguments and its result

vars == <<disk, its, gen>>

(***************************************************************************)
(* Python values.                                                          *)
(***************************************************************************)
\* (each type has its own field, so that values of two types never meet in
\* a comparison of fields)
PyNone == [t |-> "none"]
PyInt(n) == [t |-> "int", i |-> n]
PyStr(s) == [t |-> "str", s |-> s]
PyTuple(q) == [t |-> "tuple", items |-> q]
PySet(S) == [t |-> "set", elems |-> S]

\* Python's truth value of an object: bool(x)
Truthy(x) ==
    CASE x.t = "none" -> FALSE
      [] x.t = "int" -> x.i # 0
      [] x.t = "str" -> Len(x.s) > 0
      [] x.t = "tuple" -> Len(x.items) > 0
      [] x.t = "set" -> x.elems # {}
      [] OTHER -> TRUE

(***************************************************************************)
(* Strings as sequences of character codes.                                *)
(***************************************************************************)
ChDash == 45
ChSlash == 47
ChColon == 58
ChT == 84
Ch0 == 48

IsDigit(c) == c >= 48 /\ c <= 57
DigitVal(c) == c - 48

MinOf(a, b) == IF a < b THEN a ELSE b

\* str.__lt__: lexicographic order on code points; a proper prefix is smaller
StrLess(a, b) ==
    \E k \in 1..(MinOf(Len(a), Len(b)) + 1) :
        /\ \A j \in 1..(k - 1) : a[j] = b[j]
        /\ \/ k > Len(a) /\ k <= Len(b)
           \/ k <= Len(a) /\ k <= Len(b) /\ a[k] < b[k]

StrLeq(a, b) == ~StrLess(b, a)

\* '%02d' and '%04d'
Fmt2(n) == <<Ch0 + ((n \div 10) % 10), Ch0 + (n % 10)>>
Fmt4(n) == <<Ch0 + ((n \div 1000) % 10), Ch0 + ((n \div 100) % 10),
             Ch0 + ((n \div 10) % 10), Ch0 + (n % 10)>>

\* dt.strftime('%Y-%m')
StrftimeYM(y, m) == Fmt4(y) \o <<ChDash>> \o Fmt2(m)

\* dt.strftime('%Y/RC_%Y-%m.bz2')
FileName(y, m) ==
    Fmt4(y) \o <<ChSlash, 82, 67, 95>> \o Fmt4(y) \o <<ChDash>> \o Fmt2(m)
        \o <<46, 98, 122, 50>>

IsLeap(y) == (y % 4 = 0 /\ y % 100 # 0) \/ y % 400 = 0

DaysInMonth(y, m) ==
    IF m = 2 THEN (IF IsLeap(y) THEN 29 ELSE 28)
    ELSE IF m \in {4, 6, 9, 11} THEN 30 ELSE 31

\* the value of the one- or two-digit field s[from..to], or -1 when the text
\* there is not what strptime's %m / %d accept (1[0-2]|0[1-9]|[1-9], and
\* 3[01]|[12]\d|0[1-9]|[1-9]; a leading zero only in the two-digit form)
Field(s, from, to) ==
    IF to < from \/ to > from + 1 \/ to > Len(s) THEN -1
    ELSE IF \E j \in from..to : ~IsDigit(s[j]) THEN -1
    ELSE IF to = from THEN (IF s[from] = Ch0 THEN -1 ELSE DigitVal(s[from]))
    ELSE 10 * DigitVal(s[from]) + DigitVal(s[to])

\* the four-digit year s[1..4] followed by '-', or -1
YearOf(s) ==
    IF Len(s) < 5 THEN -1
    ELSE IF (\E j \in 1..4 : ~IsDigit(s[j])) \/ s[5] # ChDash THEN -1
    ELSE 1000 * DigitVal(s[1]) + 100 * DigitVal(s[2]) + 10 * DigitVal(s[3])
            + DigitVal(s[4])

NoDate == [ok |-> FALSE, year |-> 0, month |-> 0, day |-> 0]

\* datetime.strptime(s, '%Y-%m'): the whole string must match
StrptimeYM(s) ==
    LET y == YearOf(s)
        m == Field(s, 6, Len(s))
    IN  IF y >= 1 /\ m >= 1 /\ m <= 12
        THEN [ok |-> TRUE, year |-> y, month |-> m, day |-> 1]
        ELSE NoDate

\* datetime.strptime(s, '%Y-%m-%d'): the whole string must match and the day
\* must exist in the month
StrptimeYMD(s) ==
    LET y == YearOf(s)
        dashes == {j \in 6..Len(s) : s[j] = ChDash}
    IN  IF y < 1 \/ Cardinality(dashes) # 1 THEN NoDate
        ELSE LET p == CHOOSE j \in dashes : TRUE
                 m == Field(s, 6, p - 1)
                 d == Field(s, p + 1, Len(s))
             IN  IF m >= 1 /\ m <= 12 /\ d >= 1 /\ d <= DaysInMonth(y, m)
                 THEN [ok |-> TRUE, year |-> y, month |-> m, day |-> d]
                 ELSE NoDate

\* lines 176-179: try '%Y-%m', and on ValueError '%Y-%m-%d' (whose ValueError
\* is not caught)
ParseYrmo(s) == IF StrptimeYM(s).ok THEN StrptimeYM(s) ELSE StrptimeYMD(s)

MIN_DATE == <<50, 48, 48, 55, 45, 49, 48, 45, 48, 49>>
MAX_DATE == <<50, 48, 49, 53, 45, 48, 54, 45, 48, 49>>
MIN_SCORE == -2147483647
MAX_SCORE == 2147483647
\* datetime.MAXYEAR: datetime(next_yr, next_mo, 1) raises ValueError above it
MAXYEAR == 9999

(***************************************************************************)
(* _generate_filenames                                                     *)
(***************************************************************************)
\* lines 182-187: the month after dt, as strftime('%Y-%m') writes it
NextMonth(dt) ==
    IF dt.month + 1 > 12 THEN [year |-> dt.year + 1, month |-> 1]
    ELSE [year |-> dt.year, month |-> dt.month + 1]

\* the local state of a call: the loop variable yrmo, end, and fnames
GenStart(start, end) ==
    [pc |-> "loop", yrmo |-> start, end |-> end, fnames |-> <<>>]

\* one pass through the while loop of lines 174-187: the test, and either the
\* return of line 188, an uncaught ValueError, or the loop body
GenStepOf(g) ==
    IF ~StrLess(g.yrmo, g.end) THEN [g EXCEPT !.pc = "returned"]
    ELSE LET dt == ParseYrmo(g.yrmo) IN
         IF ~dt.ok \/ NextMonth(dt).year > MAXYEAR
         THEN [g EXCEPT !.pc = "raised", !.fnames = <<>>]
         ELSE [g EXCEPT
                 !.fnames = Append(g.fnames, FileName(dt.year, dt.month)),
                 !.yrmo = StrftimeYM(NextMonth(dt).year, NextMonth(dt).month)]

(***************************************************************************)
(* _parse_date_range and _parse_score_range: [status, pair], a pair of    *)
(* Python values.                                                          *)
(***************************************************************************)
ParseRange(r, lo, hi) ==
    IF r.t # "tuple" THEN [status |-> "ValueError", pair |-> <<>>]
    ELSE IF Len(r.items) # 2 THEN [status |-> "ValueError", pair |-> <<>>]
    ELSE [status |-> "ok",
          pair |-> <<IF ~Truthy(r.items[1]) THEN lo ELSE r.items[1],
                     IF ~Truthy(r.items[2]) THEN hi ELSE r.items[2]>>]

ParseDateRange(date_range) ==
    ParseRange(date_range, PyStr(MIN_DATE), PyStr(MAX_DATE))

ParseScoreRange(score_range) ==
    ParseRange(score_range, PyInt(MIN_SCORE), PyInt(MAX_SCORE))

(***************************************************************************)
(* _convert_timestamp                                                      *)
(***************************************************************************)
RECURSIVE DigitsToInt(_, _)
DigitsToInt(s, acc) ==
    IF s = <<>> THEN acc ELSE DigitsToInt(Tail(s), 10 * acc + DigitVal(Head(s)))

\* int(x): the value, or the exception int() raises (a str must be all
\* decimal digits here; None and containers raise TypeError)
IntOf(x) ==
    CASE x.t = "int" -> [exc |-> "none", v |-> x.i]
      [] x.t = "str" ->
            IF Len(x.s) > 0 /\ \A j \in 1..Len(x.s) : IsDigit(x.s[j])
            THEN [exc |-> "none", v |-> DigitsToInt(x.s, 0)]
            ELSE [exc |-> "ValueError", v |-> 0]
      [] OTHER -> [exc |-> "TypeError", v |-> 0]

\* datetime.utcfromtimestamp(ts).strftime('%Y-%m-%dT%H:%M:%S') for ts >= 0:
\* the proleptic Gregorian date of day ts // 86400 after 1970-01-01
IsoFormat(ts) ==
    LET days == ts \div 86400
        secs == ts % 86400
        z == days + 719468
        era == z \div 146097
        doe == z - era * 146097
        yoe == (doe - (doe \div 1460) + (doe \div 36524) - (doe \div 146096))
                   \div 365
        doy == doe - (365 * yoe + (yoe \div 4) - (yoe \div 100))
        mp == (5 * doy + 2) \div 153
        d == doy - ((153 * mp + 2) \div 5) + 1
        m == IF mp < 10 THEN mp + 3 ELSE mp - 9
        y == yoe + era * 400 + (IF m <= 2 THEN 1 ELSE 0)
    IN  Fmt4(y) \o <<ChDash>> \o Fmt2(m) \o <<ChDash>> \o Fmt2(d) \o <<ChT>>
            \o Fmt2(secs \div 3600) \o <<ChColon>> \o Fmt2((secs \div 60) % 60)
            \o <<ChColon>> \o Fmt2(secs % 60)

\* (a variant: the except clause names ValueError alone)
CaughtValueErrorOnly == {"ValueError"}

\* the exceptions line 318 catches
Caught == {"ValueError", "TypeError"}

\* [exc, s]: s the converted str; exc # "none" when an exception escapes
ConvertTimestamp(timestamp) ==
    LET i == IntOf(timestamp) IN
    IF i.exc = "none" THEN [exc |-> "none", s |-> IsoFormat(i.v)]
    ELSE IF i.exc \in Caught THEN [exc |-> "none", s |-> <<>>]
    ELSE [exc |-> i.exc, s |-> <<>>]

(***************************************************************************)
(* _clean_content                                                          *)
(***************************************************************************)
\* whether pat occurs in s at position i
OccursAt(s, pat, i) ==
    /\ i + Len(pat) - 1 <= Len(s)
    /\ \A j \in 1..Len(pat) : s[i + j - 1] = pat[j]

\* the position of the first c at or after i, 0 if none
FirstAtOrAfter(s, c, i) ==
    LET hits == {j \in i..Len(s) : s[j] = c}
    IN  IF hits = {} THEN 0 ELSE CHOOSE j \in hits : \A k \in hits : j <= k

\* REDDIT_LINK_RE = \[([^]]+)\]\(https?://[^\)]+\) matched at position i:
\* [close |-> position of the final ')', label |-> group 1], close = 0 if no match
LinkMatch(s, i) ==
    LET none == [close |-> 0, label |-> <<>>]
        rb == IF i <= Len(s) /\ s[i] = 91 THEN FirstAtOrAfter(s, 93, i + 1) ELSE 0
    IN  IF rb < i + 2 THEN none
        ELSE IF ~OccursAt(s, <<40, 104, 116, 116, 112>>, rb + 1) THEN none
        ELSE LET u == IF OccursAt(s, <<115, 58, 47, 47>>, rb + 6) THEN rb + 10
                      ELSE IF OccursAt(s, <<58, 47, 47>>, rb + 6) THEN rb + 9
                      ELSE 0
                 rp == IF u = 0 THEN 0 ELSE FirstAtOrAfter(s, 41, u)
             IN  IF u = 0 \/ rp < u + 1 THEN none
                 ELSE [close |-> rp, label |-> SubSeq(s, i + 1, rb - 1)]

\* REDDIT_LINK_RE.sub(r'\1', content)
RECURSIVE LinkSub(_, _)
LinkSub(s, i) ==
    IF i > Len(s) THEN <<>>
    ELSE LET m == LinkMatch(s, i) IN
         IF m.close > 0 THEN m.label \o LinkSub(s, m.close + 1)
         ELSE <<s[i]>> \o LinkSub(s, i + 1)

\* str.replace(pat, rep)
RECURSIVE Replace(_, _, _, _)
Replace(s, pat, rep, i) ==
    IF i > Len(s) THEN <<>>
    ELSE IF OccursAt(s, pat, i) THEN rep \o Replace(s, pat, rep, i + Len(pat))
    ELSE <<s[i]>> \o Replace(s, pat, rep, i + 1)

IsSpace(c) == c \in {32, 9, 10, 13}

\* normalize_whitespace: runs of whitespace become one space, the ends are
\* stripped
RECURSIVE Collapse(_, _)
Collapse(s, i) ==
    IF i > Len(s) THEN <<>>
    ELSE IF IsSpace(s[i])
         THEN (IF i = 1 \/ ~IsSpace(s[i - 1]) THEN <<32>> ELSE <<>>)
                  \o Collapse(s, i + 1)
    ELSE <<s[i]>> \o Collapse(s, i + 1)

NormalizeWhitespace(s) ==
    LET c == Collapse(s, 1)
        a == IF Len(c) > 0 /\ c[1] = 32 THEN Tail(c) ELSE c
    IN  IF Len(a) > 0 /\ a[Len(a)] = 32 THEN SubSeq(a, 1, Len(a) - 1) ELSE a

CleanContent(content) ==
    LET c1 == LinkSub(content, 1)
        c2 == Replace(Replace(c1, <<38, 103, 116, 59>>, <<62>>, 1),
                      <<38, 108, 116, 59>>, <<60>>, 1)
        c3 == SelectSeq(c2, LAMBDA c : c \notin {96, 42, 126})
    IN  NormalizeWhitespace(c3)

(***************************************************************************)
(* The data directory: three monthly files, each a sequence of the records *)
(* the line reader delivers.                                               *)
(***************************************************************************)
DATA_DIR == <<100>>

\* os.path.join(self.data_dir, fname)
PathJoin(fname) == DATA_DIR \o <<ChSlash>> \o fname

File1 == PathJoin(FileName(2007, 11))
File2 == PathJoin(FileName(2007, 12))
File3 == PathJoin(FileName(2008, 1))
AllFiles == {File1, File2, File3}

Missing == [t |-> "missing"]

Politics == <<112, 111, 108, 105, 116, 105, 99, 115>>
News == <<110, 101, 119, 115>>

Rec(sub, score, created, body, retrieved) ==
    [subreddit |-> sub, score |-> score, created_utc |-> created,
     body |-> body, retrieved_on |-> retrieved]

\* read_json_lines(filepath): the parsed lines of the file, in file order
ReadJsonLines(path) ==
    IF path = File1 THEN
        << Rec(Politics, 3, PyInt(1194000000),
               <<91, 97, 93, 40, 104, 116, 116, 112, 58, 47, 47, 120, 41, 32,
                 42, 98, 42>>, PyInt(1200000000)),
           Rec(News, -5, Missing, <<104, 105>>, Missing) >>
    ELSE IF path = File2 THEN
        << Rec(Politics, 0,
               PyStr(<<49, 49, 57, 55, 48, 48, 48, 48, 48, 48>>),
               <<38, 103, 116, 59, 32, 113>>, PyInt(1200000000)),
           Rec(Politics, 10, PyStr(<<49, 50, 120>>),
               <<32, 99, 10, 10, 100, 32>>, PyNone),
           Rec(News, 3, PyInt(1198000000), <<126, 101>>, PyInt(1200000000)) >>
    ELSE IF path = File3 THEN
        << Rec(Politics, -5, PyNone,
               <<91, 107, 93, 40, 104, 116, 116, 112, 115, 58, 47, 47, 121, 41,
                 96, 38, 108, 116, 59>>, PyInt(1200000000)),
           Rec(News, 3, PyInt(1200000000), <<104, 105>>,
               PyStr(<<49, 50, 120>>)) >>
    ELSE <<>>

\* line.get(key, '')
GetOr(x) == IF x.t = "missing" THEN PyStr(<<>>) ELSE x

\* sorted(paths): ascending in str order
RECURSIVE Sorted(_)
Sorted(S) ==
    IF S = {} THEN <<>>
    ELSE LET lo == CHOOSE x \in S : \A y \in S : x = y \/ StrLess(x, y)
         IN  <<lo>> \o Sorted(S \ {lo})

\* the filenames property: the sorted paths found under data_dir (the empty
\* tuple when the directory does not exist)
Filenames(dsk) == Sorted(dsk)

SeqToSet(q) == {q[j] : j \in 1..Len(q)}

(***************************************************************************)
(* One iteration: the generator _iterate behind texts() / records().       *)
(***************************************************************************)
NoArgs ==
    [text_only |-> FALSE, subreddit |-> PyNone, date_range |-> PyNone,
     score_range |-> PyNone, min_len |-> 0, limit |-> -1]

IdleIt ==
    [pc |-> "idle", args |-> NoArgs, subreddit |-> PyNone,
     score_range |-> PyNone, date_range |-> PyNone,
     g |-> [pc |-> "none", yrmo |-> <<>>, end |-> <<>>, fnames |-> <<>>],
     filepaths |-> <<>>, listed |-> FALSE, fi |-> 0, li |-> 0, n |-> 0,
     out |-> <<>>, src |-> <<>>, opened |-> {}, nreq |-> 0]

\* texts(...) / records(...): a generator object is made; none of its code runs
CallIt(a) == [IdleIt EXCEPT !.pc = "created", !.args = a]

\* lines 264-268
NormSubreddit(subreddit) ==
    IF ~Truthy(subreddit) THEN subreddit
    ELSE IF subreddit.t = "str" THEN PySet({subreddit.s})
    ELSE IF subreddit.t = "tuple" THEN PySet(SeqToSet(subreddit.items))
    ELSE subreddit

\* lines 276-285: filepaths is set; no file found raises IOError, else n = 0
\* and the file loop starts
SelectFiles(it, filepaths) ==
    IF filepaths = <<>>
    THEN [it EXCEPT !.pc = "IOError", !.listed = TRUE]
    ELSE [it EXCEPT !.pc = "loop", !.listed = TRUE, !.filepaths = filepaths,
                    !.fi = 1, !.li = 0, !.n = 0]

\* (a variant: the available files are not filtered by the needed paths)
NeededFilesAll(dsk, fnames) == Filenames(dsk)

\* lines 273-278: the available files whose path is among the needed ones
NeededFiles(dsk, fnames) ==
    LET needed_filepaths == {PathJoin(fnames[j]) : j \in 1..Len(fnames)}
    IN  SelectSeq(Filenames(dsk), LAMBDA f : f \in needed_filepaths)

\* the first pull, lines 264-273 (and 280-285 with no date_range)
BeginIt(it, dsk) ==
    LET a == it.args
        sub == NormSubreddit(a.subreddit)
        sr == IF Truthy(a.score_range) THEN ParseScoreRange(a.score_range)
              ELSE [status |-> "ok", pair |-> <<>>]
        dr == IF Truthy(a.date_range) THEN ParseDateRange(a.date_range)
              ELSE [status |-> "ok", pair |-> <<>>]
        it1 == [it EXCEPT !.subreddit = sub]
    IN  IF sr.status # "ok" THEN [it1 EXCEPT !.pc = "ValueError"]
        ELSE LET it2 == IF Truthy(a.score_range)
                        THEN [it1 EXCEPT !.score_range = PyTuple(sr.pair)]
                        ELSE [it1 EXCEPT !.score_range = a.score_range]
             IN  IF dr.status # "ok" THEN [it2 EXCEPT !.pc = "ValueError"]
                 ELSE IF Truthy(a.date_range)
                 THEN [it2 EXCEPT !.date_range = PyTuple(dr.pair),
                                  !.pc = "genfiles",
                                  !.g = GenStart(dr.pair[1].s, dr.pair[2].s)]
                 ELSE SelectFiles([it2 EXCEPT !.date_range = a.date_range],
                                  Filenames(dsk))

\* _generate_filenames inside the first pull, one pass of its loop at a time,
\* then lines 273-285
GenFilesIt(it, dsk) ==
    LET g1 == GenStepOf(it.g) IN
    IF g1.pc = "raised" THEN [it EXCEPT !.g = g1, !.pc = "ValueError"]
    ELSE IF g1.pc = "returned"
    THEN SelectFiles([it EXCEPT !.g = g1], NeededFiles(dsk, g1.fnames))
    ELSE [it EXCEPT !.g = g1]

\* lines 291-306 for one line: [act, item]; act is "skip" (a continue),
\* "yield", or the name of an exception that escapes
ProcessLine(it, line) ==
    LET a == it.args
        created == ConvertTimestamp(GetOr(line.created_utc))
        body == CleanContent(line.body)
        retrieved == ConvertTimestamp(GetOr(line.retrieved_on))
        skip == [act |-> "skip", item |-> <<>>]
    IN  IF Truthy(it.subreddit) /\ line.subreddit \notin it.subreddit.elems
        THEN skip
        ELSE IF Truthy(it.score_range)
                /\ ~(it.score_range.items[1].i <= line.score
                     /\ line.score < it.score_range.items[2].i)
        THEN skip
        ELSE IF created.exc # "none" THEN [act |-> created.exc, item |-> <<>>]
        ELSE IF Truthy(it.date_range)
                /\ ~(StrLeq(it.date_range.items[1].s, created.s)
                     /\ StrLess(created.s, it.date_range.items[2].s))
        THEN skip
        ELSE IF a.min_len # 0 /\ Len(body) < a.min_len THEN skip
        ELSE IF a.text_only THEN [act |-> "yield", item |-> body]
        ELSE IF retrieved.exc # "none"
        THEN [act |-> retrieved.exc, item |-> <<>>]
        ELSE [act |-> "yield",
              item |-> [line EXCEPT !.created_utc = created.s, !.body = body,
                                    !.retrieved_on = retrieved.s]]

\* the generator asks the current file's reader for its next line (line 289)
\* and runs the loop body on it up to its continue or its yield; when the
\* reader is exhausted, lines 312-313 and the next file
ReadLineIt(it) ==
    LET path == it.filepaths[it.fi]
        lines == ReadJsonLines(path)
        it1 == [it EXCEPT !.nreq = it.nreq + 1, !.opened = it.opened \cup {path}]
    IN  IF it.li < Len(lines)
        THEN LET r == ProcessLine(it, lines[it.li + 1])
                 it2 == [it1 EXCEPT !.li = it.li + 1]
             IN  IF r.act = "skip" THEN it2
                 ELSE IF r.act = "yield"
                 THEN [it2 EXCEPT !.pc = "yielded",
                                  !.out = Append(it.out, r.item),
                                  !.src = Append(it.src, <<path, it.li + 1>>)]
                 ELSE [it2 EXCEPT !.pc = r.act]
        ELSE IF it.n = it.args.limit THEN [it1 EXCEPT !.pc = "done"]
        ELSE IF it.fi < Len(it.filepaths)
        THEN [it1 EXCEPT !.fi = it.fi + 1, !.li = 0]
        ELSE [it1 EXCEPT !.pc = "done"]

\* (a variant: at the limit only the inner loop is left, lines 312-313
\* missing, so the file loop goes on with the next file)
ResumeItInnerBreakOnly(it) ==
    IF it.n + 1 = it.args.limit /\ it.fi >= Len(it.filepaths)
    THEN [it EXCEPT !.n = it.n + 1, !.pc = "done"]
    ELSE IF it.n + 1 = it.args.limit
    THEN [it EXCEPT !.n = it.n + 1, !.pc = "loop", !.fi = it.fi + 1, !.li = 0]
    ELSE [it EXCEPT !.n = it.n + 1, !.pc = "loop"]

\* the pull after a yield, lines 308-313: n += 1, and both breaks at the limit
ResumeIt(it) ==
    IF it.n + 1 = it.args.limit
    THEN [it EXCEPT !.n = it.n + 1, !.pc = "done"]
    ELSE [it EXCEPT !.n = it.n + 1, !.pc = "loop"]

(***************************************************************************)
(* The arguments the callers pass.                                         *)
(***************************************************************************)
MaxLimit == 4
MaxRangeLen == 3

YM(y, m) == PyStr(StrftimeYM(y, m))
YMD(y, m, d) == PyStr(StrftimeYM(y, m) \o <<ChDash>> \o Fmt2(d))
Pair(a, b) == PyTuple(<<a, b>>)

\* tuples of every length up to MaxRangeLen other than two
MisShaped(e) == {PyTuple([j \in 1..k |-> e]) : k \in (0..MaxRangeLen) \ {2}}

DateRanges ==
    {PyNone, Pair(PyNone, PyNone), Pair(YM(2007, 11), YM(2008, 1)),
     Pair(YMD(2007, 12, 1), YMD(2007, 12, 15)), Pair(YM(2008, 3), YM(2008, 5))}
        \cup MisShaped(YM(2007, 11))

ScoreRanges ==
    {PyNone, Pair(PyInt(0), PyInt(10)), Pair(PyInt(-5), PyInt(3)),
     Pair(PyInt(3), PyNone)}
        \cup MisShaped(PyInt(3))

Limits == -1..MaxLimit

ArgsFull ==
    [text_only : BOOLEAN, subreddit : {PyNone, PyStr(Politics)},
     date_range : DateRanges, score_range : ScoreRanges, min_len : {0, 3},
     limit : Limits]

\* two concurrent iterations: fewer arguments each
ArgsPair ==
    [text_only : {FALSE}, subreddit : {PyNone, PyStr(Politics)},
     date_range : {PyNone, Pair(YMD(2007, 12, 1), YMD(2007, 12, 15))},
     score_range : {PyNone, Pair(PyInt(-5), PyInt(3))}, min_len : {0},
     limit : {-1, 1, 2}]

Iters == {1, 2}

(***************************************************************************)
(* Actions of the iterations.                                              *)
(***************************************************************************)
\* (a variant: the count of yielded items kept on the shared dataset object)
AdvanceSharedCount(i, new) ==
    its' = [j \in Iters |-> IF j = i THEN new ELSE [its[j] EXCEPT !.n = new.n]]

\* the generator's variables are its own frame's: a step changes its[i] only
Advance(i, new) == its' = [its EXCEPT ![i] = new]

Call(i) ==
    /\ its[i].pc = "idle"
    /\ \E a \in ArgsFull : Advance(i, CallIt(a))
    /\ UNCHANGED <<disk, gen>>

CallPair(i) ==
    /\ its[i].pc = "idle"
    /\ \E a \in ArgsPair : Advance(i, CallIt(a))
    /\ UNCHANGED <<disk, gen>>

Begin(i) ==
    /\ its[i].pc = "created"
    /\ Advance(i, BeginIt(its[i], disk))
    /\ UNCHANGED <<disk, gen>>

GenFiles(i) ==
    /\ its[i].pc = "genfiles"
    /\ Advance(i, GenFilesIt(its[i], disk))
    /\ UNCHANGED <<disk, gen>>

ReadLine(i) ==
    /\ its[i].pc = "loop"
    /\ Advance(i, ReadLineIt(its[i]))
    /\ UNCHANGED <<disk, gen>>

Resume(i) ==
    /\ its[i].pc = "yielded"
    /\ Advance(i, ResumeIt(its[i]))
    /\ UNCHANGED <<disk, gen>>

GenIdle == [pc |-> "none", yrmo |-> <<>>, end |-> <<>>, fnames |-> <<>>]

Init ==
    /\ disk \in SUBSET AllFiles
    /\ its = [i \in Iters |-> IdleIt]
    /\ gen = [g |-> GenIdle, start |-> <<>>]

Next ==
    \/ Call(1)
    \/ Begin(1)
    \/ GenFiles(1)
    \/ ReadLine(1)
    \/ Resume(1)

Spec == Init /\ [][Next]_vars

InitPair ==
    /\ disk = AllFiles
    /\ its = [i \in Iters |-> IdleIt]
    /\ gen = [g |-> GenIdle, start |-> <<>>]

NextPair ==
    \E i \in Iters :
        \/ CallPair(i)
        \/ Begin(i)
        \/ GenFiles(i)
        \/ ReadLine(i)
        \/ Resume(i)

SpecPair == InitPair /\ [][NextPair]_vars

(***************************************************************************)
(* _generate_filenames alone, as download() calls it.                      *)
(***************************************************************************)
InputYears == {2007, 2008}
InputDays == {1, 15}

WellFormed ==
    {StrftimeYM(y, m) : y \in InputYears, m \in 1..12}
        \cup {StrftimeYM(y, m) \o <<ChDash>> \o Fmt2(d) :
                 y \in InputYears, m \in 1..12, d \in InputDays}

\* '2007-00', '2008-13', '2008-02-30'
Malformed ==
    {<<50, 48, 48, 55, 45, 48, 48>>, <<50, 48, 48, 56, 45, 49, 51>>,
     <<50, 48, 48, 56, 45, 48, 50, 45, 51, 48>>}

DateStrings == WellFormed \cup Malformed

InitGen ==
    /\ disk = {}
    /\ its = [i \in Iters |-> IdleIt]
    /\ \E s \in DateStrings, e \in DateStrings :
           gen = [g |-> GenStart(s, e), start |-> s]

GenIterate ==
    /\ gen.g.pc = "loop"
    /\ GenStepOf(gen.g).pc = "loop"
    /\ gen' = [gen EXCEPT !.g = GenStepOf(gen.g)]
    /\ UNCHANGED <<disk, its>>

GenReturn ==
    /\ gen.g.pc = "loop"
    /\ GenStepOf(gen.g).pc = "returned"
    /\ gen' = [gen EXCEPT !.g = GenStepOf(gen.g)]
    /\ UNCHANGED <<disk, its>>

GenRaise ==
    /\ gen.g.pc = "loop"
    /\ GenStepOf(gen.g).pc = "raised"
    /\ gen' = [gen EXCEPT !.g = GenStepOf(gen.g)]
    /\ UNCHANGED <<disk, its>>

NextGen == GenIterate \/ GenReturn \/ GenRaise

SpecGen == InitGen /\ [][NextGen]_vars

(***************************************************************************)
(* What the documentation says of the filters, stated on the raw record    *)
(* and the arguments as the caller wrote them.                             *)
(***************************************************************************)
IsPair(r) == r.t = "tuple" /\ Len(r.items) = 2
IsMisShaped(r) == r.t = "tuple" /\ Len(r.items) # 2
IsIntPair(r) == IsPair(r) /\ r.items[1].t = "int" /\ r.items[2].t = "int"

RecordAt(pos) == ReadJsonLines(pos[1])[pos[2]]

SubredditOK(a, rec) ==
    CASE a.subreddit.t = "str" -> rec.subreddit = a.subreddit.s
      [] a.subreddit.t = "set" -> rec.subreddit \in a.subreddit.elems
      [] OTHER -> TRUE

\* min <= score < max, an endpoint left as None being no bound
ScoreOK(a, rec) ==
    IF ~IsPair(a.score_range) THEN TRUE
    ELSE /\ a.score_range.items[1].t = "int" =>
                a.score_range.items[1].i <= rec.score
         /\ a.score_range.items[2].t = "int" =>
                rec.score < a.score_range.items[2].i

\* start <= converted created_utc < end, None standing for MIN_DATE / MAX_DATE
DateOK(a, rec) ==
    IF ~IsPair(a.date_range) THEN TRUE
    ELSE LET start == IF Truthy(a.date_range.items[1])
                      THEN a.date_range.items[1].s ELSE MIN_DATE
             end == IF Truthy(a.date_range.items[2])
                    THEN a.date_range.items[2].s ELSE MAX_DATE
             created == ConvertTimestamp(GetOr(rec.created_utc)).s
         IN  StrLeq(start, created) /\ StrLess(created, end)

LenOK(a, rec) == Len(CleanContent(rec.body)) >= a.min_len

Passes(a, rec) ==
    SubredditOK(a, rec) /\ ScoreOK(a, rec) /\ DateOK(a, rec) /\ LenOK(a, rec)

\* every (path, line number) of the files, in file order then line order
RECURSIVE Positions(_)
Positions(filepaths) ==
    IF filepaths = <<>> THEN <<>>
    ELSE [k \in 1..Len(ReadJsonLines(Head(filepaths))) |-> <<Head(filepaths), k>>]
             \o Positions(Tail(filepaths))

\* the records of the selected files that satisfy every filter, in order
Expected(it) ==
    SelectSeq(Positions(it.filepaths), LAMBDA pos : Passes(it.args, RecordAt(pos)))

IsPrefix(p, q) == Len(p) <= Len(q) /\ \A j \in 1..Len(p) : p[j] = q[j]

Reading(it) == it.pc \in {"loop", "yielded", "done"}

\* the timestamp is missing or int() cannot convert it
BadTimestamp(rec) == IntOf(GetOr(rec.created_utc)).exc # "none"

(***************************************************************************)
(* Claims about the iteration, under Spec.                                 *)
(***************************************************************************)

\* C1: for every limit L >= 0 (0 included) at most L items are yielded over
\* the whole iteration, across all files; with limit = -1 every record that
\* passes the filters is yielded.
C1_LimitCapsTotal ==
    LET it == its[1] IN
    /\ it.args.limit >= 0 => Len(it.out) <= it.args.limit
    /\ (it.pc = "done" /\ it.args.limit = -1) =>
           \A j \in 1..Len(Expected(it)) :
               Expected(it)[j] \in SeqToSet(it.src)

\* C3: for a score_range (min, max) of two integers (0 and negatives
\* included) a record is yielded only if min <= score < max, and no record
\* with min <= score < max that passes the other filters is dropped.
C3_ScoreHalfOpen ==
    LET it == its[1] IN
    IsIntPair(it.args.score_range) =>
        /\ \A j \in 1..Len(it.src) :
               /\ it.args.score_range.items[1].i <= RecordAt(it.src[j]).score
               /\ RecordAt(it.src[j]).score < it.args.score_range.items[2].i
        /\ (it.pc = "done" /\ it.args.limit = -1) =>
               \A j \in 1..Len(Expected(it)) :
                   Expected(it)[j] \in SeqToSet(it.src)

\* C7: a date_range or score_range tuple of any length other than two (the
\* empty one included) makes the iteration fail with ValueError, before the
\* data directory is listed, before any file is opened and before any item
\* is yielded.  (The failure is looked for from the first pull on: the body
\* of a generator does not run at the call.)
C7_MisShapedRaises ==
    LET it == its[1] IN
    (it.pc \notin {"idle", "created"}
     /\ (IsMisShaped(it.args.date_range) \/ IsMisShaped(it.args.score_range)))
        => /\ it.pc = "ValueError"
           /\ ~it.listed
           /\ it.opened = {}
           /\ it.out = <<>>

\* C8: with limit = -1 the yielded sequence is exactly the records of the
\* selected files, in sorted file order and line order, that satisfy every
\* active filter, each once and in order; with a limit L >= 1 it is the
\* first L items of that sequence.
C8_ExactStream ==
    LET it == its[1] IN
    (Reading(it) /\ it.args.limit # 0
     /\ ~IsMisShaped(it.args.date_range) /\ ~IsMisShaped(it.args.score_range))
        => /\ IsPrefix(it.src, Expected(it))
           /\ it.pc = "done" =>
                  Len(it.src) = IF it.args.limit = -1 THEN Len(Expected(it))
                                ELSE MinOf(it.args.limit, Len(Expected(it)))

NoFilters(a) ==
    /\ a.subreddit = PyNone
    /\ a.date_range = PyNone
    /\ a.score_range = PyNone
    /\ a.min_len = 0

\* C4: for a limit L >= 1, once the L-th item has been yielded no further
\* line is requested from a reader and no later file is opened, and the
\* iteration ends at the next pull; with files holding 2 and 3 passing
\* records and limit = 4 only the first two files are read and the third is
\* never opened.
C4_AfterLimit ==
    LET it == its[1] IN
    (it.args.limit >= 1 /\ Len(it.out) = it.args.limit) =>
        /\ its'[1].nreq = it.nreq
        /\ its'[1].opened = it.opened
        /\ its'[1].out = it.out
        /\ its'[1].pc = "done"

C4_Example ==
    LET it == its[1] IN
    (disk = AllFiles /\ NoFilters(it.args) /\ it.args.limit = 4) =>
        /\ File3 \notin it.opened
        /\ it.pc = "done" => (it.opened = {File1, File2} /\ Len(it.out) = 4)

C4_StopsAtLimit == [][C4_AfterLimit]_vars /\ []C4_Example

C4_Witness ==
    LET it == its[1] IN
    /\ disk = AllFiles /\ NoFilters(it.args) /\ it.args.limit = 4
    /\ it.pc = "done" /\ Len(it.out) = 4 /\ it.opened = {File1, File2}

SelectedSet(it) ==
    IF Truthy(it.args.date_range)
    THEN disk \cap {PathJoin(it.g.fnames[j]) : j \in 1..Len(it.g.fnames)}
    ELSE disk

\* C6: when the selected file set is empty the iteration fails with IOError
\* having yielded nothing and read nothing; when a resolved name is
\* available, resolved names with no file cause no error and only the
\* available files among the resolved names are read.
C6_FileSelection ==
    LET it == its[1] IN
    /\ it.listed => (SelectedSet(it) = {} <=> it.pc = "IOError")
    /\ it.pc = "IOError" => (it.out = <<>> /\ it.nreq = 0 /\ it.opened = {})
    /\ Reading(it) =>
           /\ it.listed
           /\ SeqToSet(it.filepaths) = SelectedSet(it)
           /\ it.opened \subseteq SelectedSet(it)
    /\ (it.pc = "done" /\ it.args.limit = -1) => it.opened = SelectedSet(it)

\* 2007-11 and 2007-12 are resolved, 2007-11 and 2008-01 are on disk
C6_Witness ==
    LET it == its[1] IN
    /\ it.args.date_range = Pair(YM(2007, 11), YM(2008, 1))
    /\ disk = {File1, File3}
    /\ it.pc = "done" /\ it.args.limit = -1
    /\ it.opened = {File1}
    /\ it.nreq > 0

(***************************************************************************)
(* Two iterations at once, under SpecPair.                                 *)
(***************************************************************************)
Terminal(it) == it.pc \notin {"created", "genfiles", "loop", "yielded"}

StepIt(it, dsk) ==
    CASE it.pc = "created" -> BeginIt(it, dsk)
      [] it.pc = "genfiles" -> GenFilesIt(it, dsk)
      [] it.pc = "loop" -> ReadLineIt(it)
      [] it.pc = "yielded" -> ResumeIt(it)
      [] OTHER -> it

\* the iteration pulled to its end with nothing else running
RECURSIVE RunAlone(_, _)
RunAlone(it, dsk) == IF Terminal(it) THEN it ELSE RunAlone(StepIt(it, dsk), dsk)

C9_StepLocal ==
    \A i \in Iters, j \in Iters :
        (i # j /\ its'[i] # its[i]) => its'[j] = its[j]

C9_SameAsAlone ==
    \A i \in Iters :
        its[i].pc # "idle" =>
            LET alone == RunAlone(CallIt(its[i].args), disk) IN
            /\ IsPrefix(its[i].out, alone.out)
            /\ its[i].n <= Len(its[i].out)
            /\ Terminal(its[i]) => (its[i].out = alone.out /\ its[i].pc = alone.pc)

\* C9: two iterations over the same files share no state: under every
\* interleaving of the pulls each yields the sequence it yields when run
\* alone, and a step of one leaves the other's count and cursors unchanged.
C9_Independent == [][C9_StepLocal]_vars /\ []C9_SameAsAlone

\* both iterations are in mid-flight, with different arguments
C9_Witness ==
    /\ its[1].pc = "yielded" /\ its[2].pc = "yielded"
    /\ its[1].n >= 1 /\ its[2].n >= 1
    /\ its[1].args # its[2].args
    /\ its[1].out # its[2].out

(***************************************************************************)
(* Claims about _generate_filenames, under SpecGen.                        *)
(***************************************************************************)
\* the calendar month of a date string, counted in months
MonthIndex(s) == 12 * ParseYrmo(s).year + ParseYrmo(s).month - 1

\* the filenames of the months first, first + 1, ..., last - 1
MonthsFromTo(first, last) ==
    IF last <= first THEN <<>>
    ELSE [k \in 1..(last - first) |->
             FileName((first + k - 1) \div 12, ((first + k - 1) % 12) + 1)]

\* C2: for start and end each written YYYY-MM or YYYY-MM-DD the result is, in
\* chronological order and without duplicates, exactly one filename for each
\* month m with month(start) <= m < month(end), rolling over from month 12
\* to month 01; the month that contains end is never included, whichever
\* form end is written in.
C2_MonthsHalfOpen ==
    (gen.start \in WellFormed /\ gen.g.end \in WellFormed) =>
        /\ gen.g.pc # "raised"
        /\ gen.g.pc = "returned" =>
               gen.g.fnames = MonthsFromTo(MonthIndex(gen.start),
                                           MonthIndex(gen.g.end))

\* C10: _generate_filenames fails with ValueError whenever the start string
\* or the end string cannot be parsed as YYYY-MM or YYYY-MM-DD, and then
\* returns no list.
C10_UnparsableRaises ==
    (gen.g.pc \in {"returned", "raised"}
     /\ (~ParseYrmo(gen.start).ok \/ ~ParseYrmo(gen.g.end).ok))
        => gen.g.pc = "raised"

=============================================================================
